---- MODULE Spec2Model ----
(***************************************************************************)
(* Model of the 3DS platform backend for Dear ImGui                        *)
(* (source/3ds/imgui_impl_ctru.cpp) and of the main loop that drives it    *)
(* (source/main.cpp): the touch translator, the gamepad translator, the    *)
(* software-keyboard state machine and the frame driver.                   *)
(*                                                                         *)
(* Floating point values are modelled exactly: pointer coordinates are     *)
(* small integers (exact in a float), analog intensities are numerators    *)
(* over the common denominator AnalogDen, delta-time is counted in ticks.  *)
(***************************************************************************)
EXTENDS Integers, Sequences, FiniteSets, TLC

VARIABLES
    pc,             \* main loop position: the next call to run
    kHeld,          \* HID: keys held at the last scan       (hidKeysHeld)
    kDown,          \* HID: keys just pressed at the last scan (hidKeysDown)
    kUp,            \* HID: keys just released at the last scan (hidKeysUp)
    tPos,           \* HID: touch sample <<px, py>>          (hidTouchRead)
    cPos,           \* HID: circle pad sample <<dx, dy>>     (hidCircleRead)
    state,          \* updateKeyboard's static state
    WantTextInput,  \* io.WantTextInput
    queueSize,      \* io.Ctx->InputEventsQueue.Size (MaxQueue: that many or more)
    started,        \* NewFrame's statics start/prev are initialised
    prev,           \* NewFrame's static prev (ticks)
    DeltaTime,      \* io.DeltaTime (ticks)
    emitted,        \* history: the io_.Add* calls of the latest translator call
    called,         \* history: the translator that returned last
    kbdCall,        \* history: what the latest updateKeyboard call saw and did
    frame,          \* history: what NewFrame did so far in this frame, in order
    s_clipboard,    \* the clipboard string
    clipCall,       \* history: the latest clipboard callback calls
    since,          \* history: calls since the keyboard was shown / the focus cleared after it
    clears          \* history: ClearActiveID calls since the last modal keyboard

hidVars   == <<kHeld, kDown, kUp, tPos, cPos>>
kbdVars   == <<state, kbdCall, since, clears>>
clockVars == <<started, prev, DeltaTime>>
clipVars  == <<s_clipboard, clipCall>>
driverVars == <<pc, kHeld, kDown, kUp, tPos, cPos, state, WantTextInput, queueSize,
                started, prev, DeltaTime, emitted, called, kbdCall, frame, since, clears>>
vars == <<pc, kHeld, kDown, kUp, tPos, cPos, state, WantTextInput, queueSize,
          started, prev, DeltaTime, emitted, called, kbdCall, frame,
          s_clipboard, clipCall, since, clears>>

----------------------------------------------------------------------------
(* Bounds of the model *)

\* raw touch samples are drawn from (0..MaxTouch) x (0..MaxTouch)
MaxTouch == 2
\* the gamepad test harness sets at most MaxEdges edge bits per poll
MaxEdges == 2
\* circle pad samples are <<i*h, j*h>>, h half the full deflection, |i|+|j| <= StickMax
StickMax == 1
\* the pending-event count is tracked up to MaxQueue ("MaxQueue or more")
MaxQueue == 2
\* the tick counter runs from 0 to MaxClock
MaxClock == 1
\* texts typed on the software keyboard: every text of at most MaxShort bytes ...
MaxShort == 2
\* ... and texts of BUFFER_SIZE-1 .. BUFFER_SIZE-1+MaxOver bytes
MaxOver == 1

\* raw circle pad samples of a stick test run from -RawMax to RawMax on an axis
RawMax == 160
\* clipboard texts have at most MaxClip bytes,
\* and a clipboard test makes at most MaxSets setClipboardText calls
MaxClip == 2
\* calls since an event of the keyboard machine are counted up to GapCap
GapCap == 4
MaxSets == 2

Min(a, b) == IF a < b THEN a ELSE b
Max(a, b) == IF a < b THEN b ELSE a

----------------------------------------------------------------------------
(* Program constants *)

TOUCH_OFFSET_X == 40
TOUCH_OFFSET_Y == 240
OFFSCREEN      == -10
CPAD_RANGE     == 156
BUFFER_SIZE    == 32

KEY_TOUCH == "KEY_TOUCH"

\* the keys the button table reads, and the touch bit
Keys == {"KEY_A", "KEY_B", "KEY_X", "KEY_Y", "KEY_L", "KEY_ZL", "KEY_ZR", "KEY_R",
         "KEY_DUP", "KEY_DRIGHT", "KEY_DDOWN", "KEY_DLEFT", KEY_TOUCH}

\* the values of updateKeyboard's enum
INACTIVE == "INACTIVE"
KEYBOARD == "KEYBOARD"
CLEARED  == "CLEARED"

\* the values swkbdInputText returns for a two-button keyboard
SWKBD_BUTTON_LEFT  == "SWKBD_BUTTON_LEFT"
SWKBD_BUTTON_RIGHT == "SWKBD_BUTTON_RIGHT"
SWKBD_BUTTON_NONE  == "SWKBD_BUTTON_NONE"
SwkbdButtons == {SWKBD_BUTTON_LEFT, SWKBD_BUTTON_RIGHT, SWKBD_BUTTON_NONE}

----------------------------------------------------------------------------
(* The calls into ImGuiIO, as the events they report.  Every event is a   *)
(* record of one shape; the fields a call does not use hold a default.    *)

Event(ev, key, down, x, y, text) ==
    [ev |-> ev, key |-> key, down |-> down, x |-> x, y |-> y, text |-> text]

AddMouseSourceEvent(source) == Event("MouseSource", source, FALSE, 0, 0, <<>>)
AddMousePosEvent(x, y)      == Event("MousePos", "", FALSE, x, y, <<>>)
AddMouseButtonEvent(b, down) == Event("MouseButton", "", down, b, 0, <<>>)
AddKeyEvent(key, down)      == Event("Key", key, down, 0, 0, <<>>)
AddKeyAnalogEvent(key, down, v) == Event("KeyAnalog", key, down, v, 0, <<>>)
AddInputCharactersUTF8(text) == Event("Text", "", FALSE, 0, 0, text)

\* two steps of a frame that report no event, as entries of its history
DeltaTimeWritten == Event("DeltaTime", "", FALSE, 0, 0, <<>>)
KeyboardShown    == Event("swkbdInputText", "", FALSE, 0, 0, <<>>)

\* the events of a log that are of one kind
OfKind(log, kind) == SelectSeq(log, LAMBDA e : e.ev = kind)

----------------------------------------------------------------------------
(* updateTouch: the events reported for the masks and the touch sample *)

\* a plausible slip: the release branch is tested before the press branch
TouchEventsReleaseFirst(held, down, up, pos) ==
    IF KEY_TOUCH \in up
    THEN << AddMouseButtonEvent(0, FALSE) >>
    ELSE IF KEY_TOUCH \in (held \cup down)
    THEN << AddMouseSourceEvent("ImGuiMouseSource_TouchScreen"),
            AddMousePosEvent(pos[1] + TOUCH_OFFSET_X, pos[2] + TOUCH_OFFSET_Y),
            AddMouseButtonEvent(0, TRUE) >>
    ELSE << AddMousePosEvent(OFFSCREEN, OFFSCREEN) >>

\* a plausible slip: the idle branch also releases the button
TouchEventsIdleRelease(held, down, up, pos) ==
    IF KEY_TOUCH \in (held \cup down)
    THEN << AddMouseSourceEvent("ImGuiMouseSource_TouchScreen"),
            AddMousePosEvent(pos[1] + TOUCH_OFFSET_X, pos[2] + TOUCH_OFFSET_Y),
            AddMouseButtonEvent(0, TRUE) >>
    ELSE IF KEY_TOUCH \in up
    THEN << AddMouseButtonEvent(0, FALSE) >>
    ELSE << AddMousePosEvent(OFFSCREEN, OFFSCREEN), AddMouseButtonEvent(0, FALSE) >>

\* a plausible slip: the release branch also parks the pointer off screen
TouchEventsReleaseMove(held, down, up, pos) ==
    IF KEY_TOUCH \in (held \cup down)
    THEN << AddMouseSourceEvent("ImGuiMouseSource_TouchScreen"),
            AddMousePosEvent(pos[1] + TOUCH_OFFSET_X, pos[2] + TOUCH_OFFSET_Y),
            AddMouseButtonEvent(0, TRUE) >>
    ELSE IF KEY_TOUCH \in up
    THEN << AddMousePosEvent(OFFSCREEN, OFFSCREEN), AddMouseButtonEvent(0, FALSE) >>
    ELSE << AddMousePosEvent(OFFSCREEN, OFFSCREEN) >>

\* a plausible slip: the two offsets are swapped
TouchEventsSwappedOffset(held, down, up, pos) ==
    IF KEY_TOUCH \in (held \cup down)
    THEN << AddMouseSourceEvent("ImGuiMouseSource_TouchScreen"),
            AddMousePosEvent(pos[1] + TOUCH_OFFSET_Y, pos[2] + TOUCH_OFFSET_X),
            AddMouseButtonEvent(0, TRUE) >>
    ELSE IF KEY_TOUCH \in up
    THEN << AddMouseButtonEvent(0, FALSE) >>
    ELSE << AddMousePosEvent(OFFSCREEN, OFFSCREEN) >>

TouchEvents(held, down, up, pos) ==
    IF KEY_TOUCH \in (held \cup down)                    \* touch pressed
    THEN << AddMouseSourceEvent("ImGuiMouseSource_TouchScreen"),
            AddMousePosEvent(pos[1] + TOUCH_OFFSET_X, pos[2] + TOUCH_OFFSET_Y),
            AddMouseButtonEvent(0, TRUE) >>
    ELSE IF KEY_TOUCH \in up                             \* touch released
    THEN << AddMouseButtonEvent(0, FALSE) >>
    ELSE << AddMousePosEvent(OFFSCREEN, OFFSCREEN) >>    \* no touch, move offscreen

----------------------------------------------------------------------------
(* updateGamepads: the button table, the analog table and their events *)

\* a plausible slip: A and B are mapped straight, not crossed
buttonMappingStraight == <<
    <<"KEY_A",      "ImGuiKey_GamepadFaceRight">>,
    <<"KEY_B",      "ImGuiKey_GamepadFaceDown">>,
    <<"KEY_X",      "ImGuiKey_GamepadFaceUp">>,
    <<"KEY_Y",      "ImGuiKey_GamepadFaceLeft">>,
    <<"KEY_L",      "ImGuiKey_GamepadL1">>,
    <<"KEY_ZL",     "ImGuiKey_GamepadL1">>,
    <<"KEY_ZR",     "ImGuiKey_GamepadR1">>,
    <<"KEY_R",      "ImGuiKey_GamepadR1">>,
    <<"KEY_DUP",    "ImGuiKey_GamepadDpadUp">>,
    <<"KEY_DRIGHT", "ImGuiKey_GamepadDpadRight">>,
    <<"KEY_DDOWN",  "ImGuiKey_GamepadDpadDown">>,
    <<"KEY_DLEFT",  "ImGuiKey_GamepadDpadLeft">> >>

buttonMapping == <<
    <<"KEY_A",      "ImGuiKey_GamepadFaceDown">>,   \* A and B are swapped
    <<"KEY_B",      "ImGuiKey_GamepadFaceRight">>,
    <<"KEY_X",      "ImGuiKey_GamepadFaceUp">>,
    <<"KEY_Y",      "ImGuiKey_GamepadFaceLeft">>,
    <<"KEY_L",      "ImGuiKey_GamepadL1">>,
    <<"KEY_ZL",     "ImGuiKey_GamepadL1">>,
    <<"KEY_ZR",     "ImGuiKey_GamepadR1">>,
    <<"KEY_R",      "ImGuiKey_GamepadR1">>,
    <<"KEY_DUP",    "ImGuiKey_GamepadDpadUp">>,
    <<"KEY_DRIGHT", "ImGuiKey_GamepadDpadRight">>,
    <<"KEY_DDOWN",  "ImGuiKey_GamepadDpadDown">>,
    <<"KEY_DLEFT",  "ImGuiKey_GamepadDpadLeft">> >>

\* a plausible slip: the pressed edge of an entry is reported before the released one
RECURSIVE ButtonEventsDownFirst(_, _, _)
ButtonEventsDownFirst(i, keys_up, keys_down) ==
    IF i > Len(buttonMapping) THEN << >>
    ELSE LET in  == buttonMapping[i][1]
             out == buttonMapping[i][2]
         IN  (IF in \in keys_down THEN << AddKeyEvent(out, TRUE) >> ELSE << >>)
             \o (IF in \in keys_up THEN << AddKeyEvent(out, FALSE) >> ELSE << >>)
             \o ButtonEventsDownFirst(i + 1, keys_up, keys_down)

\* the loop over the button table, from entry i on
RECURSIVE ButtonEvents(_, _, _)
ButtonEvents(i, keys_up, keys_down) ==
    IF i > Len(buttonMapping) THEN << >>
    ELSE LET in  == buttonMapping[i][1]
             out == buttonMapping[i][2]
         IN  (IF in \in keys_up   THEN << AddKeyEvent(out, FALSE) >> ELSE << >>)
             \o (IF in \in keys_down THEN << AddKeyEvent(out, TRUE) >> ELSE << >>)
             \o ButtonEvents(i + 1, keys_up, keys_down)

\* the analog table: axis (1 = dx, 2 = dy), logical key, min and max in tenths
analogMapping == <<
    [in |-> 1, out |-> "ImGuiKey_GamepadLStickLeft",  min |-> -3, max |-> -9],
    [in |-> 1, out |-> "ImGuiKey_GamepadLStickRight", min |->  3, max |->  9],
    [in |-> 2, out |-> "ImGuiKey_GamepadLStickUp",    min |->  3, max |->  9],
    [in |-> 2, out |-> "ImGuiKey_GamepadLStickDown",  min |-> -3, max |-> -9] >>

\* every intensity is a numerator over AnalogDen = 156 * |max - min|, max and min in tenths
AnalogDen == CPAD_RANGE * 6

\* a plausible slip: the value is not clamped
AnalogValueUnclamped(in, min, max) ==
    IF max > min THEN 10 * in - CPAD_RANGE * min
                 ELSE CPAD_RANGE * min - 10 * in

\* clamp ((in / 156.0f - min) / (max - min), 0.0f, 1.0f), as a numerator over AnalogDen
AnalogValue(in, min, max) ==
    LET num == IF max > min THEN 10 * in - CPAD_RANGE * min
                            ELSE CPAD_RANGE * min - 10 * in
    IN  Max(0, Min(num, AnalogDen))

\* a plausible slip: a direction is down as soon as its intensity is above 0
AnalogEventsAnyIntensity(cpad) ==
    [ i \in 1..Len(analogMapping) |->
        LET m     == analogMapping[i]
            value == AnalogValue(cpad[m.in], m.min, m.max)
        IN  AddKeyAnalogEvent(m.out, value > 0, value) ]

\* the loop over the analog table
AnalogEvents(cpad) ==
    [ i \in 1..Len(analogMapping) |->
        LET m     == analogMapping[i]
            value == AnalogValue(cpad[m.in], m.min, m.max)
        IN  AddKeyAnalogEvent(m.out, 10 * value > AnalogDen, value) ]

GamepadEvents(keys_up, keys_down, cpad) ==
    ButtonEvents(1, keys_up, keys_down) \o AnalogEvents(cpad)

----------------------------------------------------------------------------
(* updateKeyboard: the software keyboard and the three-state machine *)

\* a C string in a buffer: the bytes before the first zero byte
RECURSIVE CStrFrom(_, _)
CStrFrom(buffer, i) ==
    IF i \notin DOMAIN buffer \/ buffer[i] = 0 THEN << >>
    ELSE << buffer[i] >> \o CStrFrom(buffer, i + 1)

CStr(buffer) == CStrFrom(buffer, 0)

\* swkbdInputText (&kbd, buffer, bufsize) on a zeroed buffer: the typed text as
\* UTF-8, cut to bufsize - 1 bytes, and its terminator
swkbdInputText(typed, bufsize) ==
    [ i \in 0..(bufsize - 1) |->
        IF i < Min(Len(typed), bufsize - 1) THEN typed[i + 1] ELSE 0 ]

\* a plausible slip: the empty test is inverted
KeyboardEventsInverted(button, buffer) ==
    IF button = SWKBD_BUTTON_RIGHT
    THEN IF buffer[0] # 0
         THEN << AddKeyEvent("ImGuiKey_Backspace", TRUE),
                 AddKeyEvent("ImGuiKey_Backspace", FALSE) >>
         ELSE << AddInputCharactersUTF8(CStr(buffer)) >>
    ELSE << >>

\* a plausible slip: the button is not tested, Cancel injects like OK
KeyboardEventsAnyButton(button, buffer) ==
    IF buffer[0] = 0
    THEN << AddKeyEvent("ImGuiKey_Backspace", TRUE),
            AddKeyEvent("ImGuiKey_Backspace", FALSE) >>
    ELSE << AddInputCharactersUTF8(CStr(buffer)) >>

\* a plausible slip: a missing else, the text follows a Backspace tap
KeyboardEventsBoth(button, buffer) ==
    IF button = SWKBD_BUTTON_RIGHT
    THEN << AddKeyEvent("ImGuiKey_Backspace", TRUE),
            AddKeyEvent("ImGuiKey_Backspace", FALSE) >>
         \o (IF buffer[0] = 0 THEN << >> ELSE << AddInputCharactersUTF8(CStr(buffer)) >>)
    ELSE << >>

\* what the INACTIVE case reports once the keyboard has returned
KeyboardEvents(button, buffer) ==
    IF button = SWKBD_BUTTON_RIGHT
    THEN IF buffer[0] = 0
         THEN << AddKeyEvent("ImGuiKey_Backspace", TRUE),
                 AddKeyEvent("ImGuiKey_Backspace", FALSE) >>
         ELSE << AddInputCharactersUTF8(CStr(buffer)) >>
    ELSE << >>

\* a plausible slip: CLEARED waits for the text focus to go away
NextStateStuck(st, want, depth) ==
    CASE st = INACTIVE -> IF want THEN KEYBOARD ELSE INACTIVE
      [] st = KEYBOARD -> IF depth > 0 THEN KEYBOARD ELSE CLEARED
      [] st = CLEARED  -> IF want THEN CLEARED ELSE INACTIVE

\* the state the switch leaves, from the state, io.WantTextInput and the queue size
NextState(st, want, depth) ==
    CASE st = INACTIVE -> IF want THEN KEYBOARD ELSE INACTIVE
      [] st = KEYBOARD -> IF depth > 0 THEN KEYBOARD ELSE CLEARED
      [] st = CLEARED  -> INACTIVE

\* a plausible slip: the keyboard is shown whenever text input is wanted
ShowsKeyboardAnyState(st, want) == want

\* whether the call shows the software keyboard
ShowsKeyboard(st, want) == st = INACTIVE /\ want

\* a plausible slip: the focus is cleared without waiting for the queue
ClearsActiveIDEarly(st, depth) == st = KEYBOARD

\* whether the call reaches ImGui::ClearActiveID ()
ClearsActiveID(st, depth) == st = KEYBOARD /\ ~(depth > 0)

----------------------------------------------------------------------------
(* The input queue of the GUI, by its size *)

\* the sizes the queue can have after a call has reported a log: each report
\* appends an event or none (the GUI drops a report that repeats the latest
\* value of its pointer, button or key)
Pushed(size, log) ==
    { Min(size + k, MaxQueue) : k \in 0..Len(log) }

\* the sizes the queue can have after ImGui::NewFrame has processed it: with
\* input trickling it handles at least the first event and may leave later ones
Consumed(size) ==
    IF size = 0 THEN {0}
    ELSE IF size = MaxQueue THEN 0..MaxQueue
    ELSE 0..(size - 1)

----------------------------------------------------------------------------
(* The inputs the model draws *)

\* raw touch samples
TouchSamples == (0..MaxTouch) \X (0..MaxTouch)

\* circle pad samples: steps of half the full deflection along and between the axes
Abs(n) == IF n < 0 THEN -n ELSE n
StickSamples ==
    { << p[1] * (CPAD_RANGE \div 2), p[2] * (CPAD_RANGE \div 2) >> :
        p \in { q \in ((-StickMax)..StickMax) \X ((-StickMax)..StickMax) :
                  Abs(q[1]) + Abs(q[2]) <= StickMax } }

\* texts typed on the software keyboard, as nonzero bytes: the short ones over
\* two letters, and long runs of one letter around the size of the buffer
Typed ==
    UNION { [ 1..n -> {97, 98} ] : n \in 0..MaxShort } \cup
    { [ i \in 1..n |-> 97 ] : n \in (BUFFER_SIZE - 1)..(BUFFER_SIZE - 1 + MaxOver) }

\* what the main loop's user does at a scan: the keys held, where the
\* stylus is, and the stick
FrameKeys   == {KEY_TOUCH, "KEY_L", "KEY_ZL"}
FrameTouch  == { <<0, 0>> }
FrameSticks == { <<0, 0>>, <<CPAD_RANGE, 0>> }
FramePolls ==
    { [keys |-> {},                 stick |-> <<0, 0>>],
      [keys |-> {KEY_TOUCH},        stick |-> <<0, 0>>],
      [keys |-> {"KEY_L"},          stick |-> <<0, 0>>],
      [keys |-> {"KEY_L", "KEY_ZL"}, stick |-> <<0, 0>>],
      [keys |-> {"KEY_ZL"},         stick |-> <<CPAD_RANGE, 0>>] }

----------------------------------------------------------------------------
(* The initial state: before the first pass of the main loop *)

NoCall == [from |-> "none", want |-> FALSE, depth |-> 0, modal |-> FALSE,
           button |-> SWKBD_BUTTON_NONE, typed |-> << >>, cleared |-> FALSE,
           afterModal |-> 0, afterClear |-> 0]

\* no keyboard was shown and no focus cleared within the latest GapCap calls
NoGaps == [modal |-> GapCap, clear |-> GapCap]

\* the history of the clipboard before any callback ran
NoClipCall == [fn |-> "none", sets |-> 0, text_ |-> [i \in {0} |-> 0],
               earlier |-> << >>, ret |-> [i \in {0} |-> 0], old |-> << >>]

Init ==
    /\ pc = "hidScanInput"
    /\ kHeld = {} /\ kDown = {} /\ kUp = {}
    /\ tPos = <<0, 0>> /\ cPos = <<0, 0>>
    /\ state = INACTIVE
    /\ WantTextInput = FALSE
    /\ queueSize = 0
    /\ started = FALSE /\ prev = 0 /\ DeltaTime = 0
    /\ emitted = << >> /\ called = "none"
    /\ kbdCall = NoCall
    /\ since = NoGaps
    /\ frame = << >>
    /\ s_clipboard = << >>
    /\ clipCall = NoClipCall
    /\ clears = 0

----------------------------------------------------------------------------
(* The three translators, as NewFrame calls them *)

TouchCall ==
    /\ emitted' = TouchEvents(kHeld, kDown, kUp, tPos)
    /\ queueSize' \in Pushed(queueSize, emitted')
    /\ called' = "updateTouch"
    /\ frame' = frame \o emitted'
    /\ UNCHANGED <<clipVars, hidVars, kbdVars, clockVars, WantTextInput>>

GamepadsCall ==
    /\ emitted' = GamepadEvents(kUp, kDown, cPos)
    /\ queueSize' \in Pushed(queueSize, emitted')
    /\ called' = "updateGamepads"
    /\ frame' = frame \o emitted'
    /\ UNCHANGED <<clipVars, hidVars, kbdVars, clockVars, WantTextInput>>

KeyboardCall ==
    /\ called' = "updateKeyboard"
    /\ state' = NextState(state, WantTextInput, queueSize)
    /\ IF ShowsKeyboard(state, WantTextInput)
       THEN \E button \in SwkbdButtons, typed \in Typed :
              /\ emitted' = KeyboardEvents(button, swkbdInputText(typed, BUFFER_SIZE))
              /\ kbdCall' = [from |-> state, want |-> WantTextInput, depth |-> queueSize,
                             modal |-> TRUE, button |-> button, typed |-> typed,
                             cleared |-> FALSE,
                             afterModal |-> Min(since.modal + 1, GapCap),
                             afterClear |-> Min(since.clear + 1, GapCap)]
              /\ clears' = 0
       ELSE /\ emitted' = << >>
            /\ kbdCall' = [from |-> state, want |-> WantTextInput, depth |-> queueSize,
                           modal |-> FALSE, button |-> SWKBD_BUTTON_NONE, typed |-> << >>,
                           cleared |-> ClearsActiveID(state, queueSize),
                           afterModal |-> Min(since.modal + 1, GapCap),
                           afterClear |-> Min(since.clear + 1, GapCap)]
            /\ clears' = IF ClearsActiveID(state, queueSize) THEN clears + 1 ELSE clears
    /\ since' =
         [modal |-> IF ShowsKeyboard(state, WantTextInput) THEN 0
                    ELSE Min(since.modal + 1, GapCap),
          clear |-> IF ClearsActiveID(state, queueSize) THEN 0
                    ELSE IF ShowsKeyboard(state, WantTextInput) THEN GapCap
                    ELSE Min(since.clear + 1, GapCap)]
    /\ frame' = frame \o (IF ShowsKeyboard(state, WantTextInput)
                           THEN << KeyboardShown >> ELSE << >>) \o emitted'
    /\ queueSize' \in Pushed(queueSize, emitted')
    /\ UNCHANGED <<clipVars, hidVars, clockVars, WantTextInput>>

----------------------------------------------------------------------------
(* The main loop: hidScanInput, ImGui::Ctru::NewFrame, ImGui::NewFrame *)

\* a plausible slip: the keyboard, which may block, is called first
NewFrameCallsKeyboardFirst == << "updateKeyboard", "updateTouch", "updateGamepads" >>

\* the translators in the order NewFrame calls them after its time step
NewFrameCalls == << "updateTouch", "updateGamepads", "updateKeyboard" >>

\* the step of the main loop that follows a translator call
After(call) ==
    LET i == CHOOSE k \in 1..Len(NewFrameCalls) : NewFrameCalls[k] = call
    IN  IF i < Len(NewFrameCalls) THEN NewFrameCalls[i + 1] ELSE "ImGuiNewFrame"

hidScanInput ==
    /\ pc = "hidScanInput"
    /\ \E poll \in FramePolls :
         LET cur == poll.keys
         IN  /\ cur \subseteq FrameKeys /\ poll.stick \in FrameSticks
             /\ kHeld' = cur
             /\ kDown' = cur \ kHeld
             /\ kUp'   = kHeld \ cur
             /\ tPos' \in (IF KEY_TOUCH \in cur THEN FrameTouch ELSE { <<0, 0>> })
             /\ cPos' = poll.stick
    /\ pc' = "NewFrame"
    /\ UNCHANGED <<clipVars, kbdVars, clockVars, WantTextInput, queueSize, emitted, called, frame>>

\* the time step of NewFrame; the statics start and prev are set on the first call
NewFrame ==
    /\ pc = "NewFrame"
    /\ IF ~started
       THEN \E start \in 0..MaxClock : \E now \in start..MaxClock :
              /\ DeltaTime' = now - start
              /\ prev' = now
       ELSE \E now \in prev..MaxClock :
              /\ DeltaTime' = now - prev
              /\ prev' = now
    /\ started' = TRUE
    /\ frame' = frame \o << DeltaTimeWritten >>
    /\ pc' = NewFrameCalls[1]
    /\ UNCHANGED <<clipVars, hidVars, kbdVars, WantTextInput, queueSize, emitted, called>>

updateTouch    == pc = "updateTouch"    /\ TouchCall    /\ pc' = After("updateTouch")
updateGamepads == pc = "updateGamepads" /\ GamepadsCall /\ pc' = After("updateGamepads")
updateKeyboard == pc = "updateKeyboard" /\ KeyboardCall /\ pc' = After("updateKeyboard")

\* ImGui::NewFrame and the widgets of the frame: the GUI processes its queue
\* and decides whether a text field wants input
ImGuiNewFrame ==
    /\ pc = "ImGuiNewFrame"
    /\ queueSize' \in Consumed(queueSize)
    /\ WantTextInput' \in BOOLEAN
    /\ emitted' = << >> /\ called' = "none" /\ kbdCall' = NoCall
    /\ frame' = << >>
    /\ pc' = "hidScanInput"
    /\ UNCHANGED <<clipVars, hidVars, clockVars, state, since, clears>>

Next ==
    \/ hidScanInput
    \/ NewFrame
    \/ updateTouch
    \/ updateGamepads
    \/ updateKeyboard
    \/ ImGuiNewFrame

Spec == Init /\ [][Next]_vars

\* the main loop keeps running, and again and again ImGui::NewFrame handles
\* every event that is pending
Drains == ImGuiNewFrame /\ queueSize' = 0
FairSpec == Spec /\ WF_vars(Next) /\ SF_vars(Drains)

----------------------------------------------------------------------------
(* The translators on their own: a test sets the HID masks and samples to  *)
(* any values, makes the one call, and starts over.  The masks here are    *)
(* free: a held bit, a just-pressed bit and a just-released bit may be set *)
(* together, which one scan of the hardware never reports.                 *)

\* the subsets of S with at most n elements
RECURSIVE SubsetsUpTo(_, _)
SubsetsUpTo(S, n) ==
    IF n = 0 THEN { {} }
    ELSE LET T == SubsetsUpTo(S, n - 1)
         IN  T \cup { t \cup {k} : t \in T, k \in S }

\* the keys a touch test sets bits of
TouchKeys == {KEY_TOUCH, "KEY_A"}

SetTouchInput ==
    /\ pc = "hidScanInput"
    /\ kHeld' \in SUBSET TouchKeys
    /\ kDown' \in SUBSET TouchKeys
    /\ kUp'   \in SUBSET TouchKeys
    /\ tPos'  \in TouchSamples
    /\ pc' = "updateTouch"
    /\ UNCHANGED <<clipVars, cPos, kbdVars, clockVars, WantTextInput, queueSize, emitted, called, frame>>

SetPadInput ==
    /\ pc = "hidScanInput"
    /\ \E down \in SubsetsUpTo(Keys, MaxEdges) :
         \E up \in SubsetsUpTo(Keys, MaxEdges - Cardinality(down)) :
           /\ kDown' = down
           /\ kUp'   = up
           /\ kHeld' = down
    /\ cPos' \in StickSamples
    /\ pc' = "updateGamepads"
    /\ UNCHANGED <<clipVars, tPos, kbdVars, clockVars, WantTextInput, queueSize, emitted, called, frame>>

\* the end of a test: the next one starts from the initial state
Restart ==
    /\ called # "none"
    /\ pc' = "hidScanInput"
    /\ kHeld' = {} /\ kDown' = {} /\ kUp' = {}
    /\ tPos' = <<0, 0>> /\ cPos' = <<0, 0>>
    /\ state' = INACTIVE
    /\ WantTextInput' = FALSE
    /\ queueSize' = 0
    /\ started' = FALSE /\ prev' = 0 /\ DeltaTime' = 0
    /\ emitted' = << >> /\ called' = "none"
    /\ kbdCall' = NoCall
    /\ since' = NoGaps
    /\ frame' = << >>
    /\ s_clipboard' = << >>
    /\ clipCall' = NoClipCall
    /\ clears' = 0

\* the character arrays of n bytes that hold a text and its terminator
ClipBytes == {0, 1, 2}
CharArrays(n) ==
    { a \in [0..(n - 1) -> ClipBytes] : \E i \in 0..(n - 1) : a[i] = 0 }

\* the C strings a caller can pass as text_
ClipTexts == UNION { CharArrays(n) : n \in 1..(MaxClip + 1) }

\* a plausible slip: the new text is appended to the stored one
AssignAppended(old, text_) == old \o CStr(text_)

\* s_clipboard = text_: std::string's assignment from a C string
Assign(old, text_) == CStr(text_)

\* s_clipboard.c_str (): the bytes of the string and a terminator
c_str(str) == [ i \in 0..Len(str) |-> IF i < Len(str) THEN str[i + 1] ELSE 0 ]

setClipboardText ==
    /\ clipCall.sets < MaxSets
    /\ \E text_ \in ClipTexts :
         /\ s_clipboard' = Assign(s_clipboard, text_)
         /\ clipCall' = [clipCall EXCEPT !.fn = "setClipboardText",
                                         !.sets = @ + 1,
                                         !.earlier = s_clipboard,
                                         !.text_ = text_,
                                         !.ret = NoClipCall.ret,
                                         !.old = s_clipboard]
    /\ UNCHANGED driverVars

getClipboardText ==
    /\ clipCall' = [clipCall EXCEPT !.fn = "getClipboardText",
                                    !.ret = c_str(s_clipboard),
                                    !.old = s_clipboard]
    /\ UNCHANGED <<driverVars, s_clipboard>>

ClipNext == setClipboardText \/ getClipboardText
ClipSpec == Init /\ [][ClipNext]_vars

\* raw circle pad samples of a stick test: along the axes and the diagonals
FineSticks ==
    { << d, 0 >> : d \in (-RawMax)..RawMax } \cup
    { << 0, d >> : d \in (-RawMax)..RawMax } \cup
    { << d, d >> : d \in (-RawMax)..RawMax } \cup
    { << d, -d >> : d \in (-RawMax)..RawMax }

SetStickInput ==
    /\ pc = "hidScanInput"
    /\ cPos' \in FineSticks
    /\ pc' = "updateGamepads"
    /\ UNCHANGED <<clipVars, kHeld, kDown, kUp, tPos, kbdVars, clockVars, WantTextInput,
                   queueSize, emitted, called, frame>>

TouchNext ==
    \/ SetTouchInput
    \/ updateTouch
    \/ Restart

TouchSpec == Init /\ [][TouchNext]_vars

PadNext ==
    \/ SetPadInput
    \/ updateGamepads
    \/ Restart

PadSpec == Init /\ [][PadNext]_vars

StickNext ==
    \/ SetStickInput
    \/ updateGamepads
    \/ Restart

StickSpec == Init /\ [][StickNext]_vars

----------------------------------------------------------------------------
(* Properties *)

AfterTouch    == called = "updateTouch"
AfterGamepads == called = "updateGamepads"
AfterKeyboard == called = "updateKeyboard"

\* the output buffer the software keyboard left in the latest call
LastBuffer == swkbdInputText(kbdCall.typed, BUFFER_SIZE)

\* the events of the latest call that name a logical key
EventsFor(key) == SelectSeq(emitted, LAMBDA e : e.key = key)

\* the places of the events of one kind in the latest call
Places(kind) == { i \in 1..Len(emitted) : emitted[i].ev = kind }

BackspaceTap == << AddKeyEvent("ImGuiKey_Backspace", TRUE),
                   AddKeyEvent("ImGuiKey_Backspace", FALSE) >>

\* C1: the keyboard machine starts in INACTIVE; a call in INACTIVE that sees
\* WantTextInput leaves it in KEYBOARD; a call in KEYBOARD leaves it in CLEARED
\* exactly when it sees an empty input queue and in KEYBOARD otherwise; a call
\* in CLEARED leaves it in INACTIVE whatever WantTextInput and the queue are,
\* reports no event, shows no keyboard and does not touch the focus.
C1_KeyboardSequencing ==
    /\ called = "none" /\ pc = "hidScanInput" /\ ~started => state = INACTIVE
    /\ AfterKeyboard =>
        /\ kbdCall.from = INACTIVE /\ kbdCall.want => state = KEYBOARD
        /\ kbdCall.from = KEYBOARD =>
              /\ state \in {KEYBOARD, CLEARED}
              /\ state = CLEARED <=> kbdCall.depth = 0
        /\ kbdCall.from = CLEARED =>
              /\ state = INACTIVE
              /\ emitted = << >>
              /\ ~kbdCall.cleared
              /\ ~kbdCall.modal

\* C1 witness: a session went through KEYBOARD and CLEARED, and the call in
\* CLEARED returned to INACTIVE although text input was wanted and events pended
C1_Witness ==
    /\ AfterKeyboard
    /\ kbdCall.from = CLEARED /\ kbdCall.want /\ kbdCall.depth > 0
    /\ state = INACTIVE

\* C2: ClearActiveID is called once per keyboard session, by the call that
\* takes KEYBOARD to CLEARED (the one that sees an empty queue), and by no
\* call in INACTIVE, in CLEARED, or in KEYBOARD with events pending.
C2_ClearOncePerSession ==
    /\ clears <= 1
    /\ state = KEYBOARD => clears = 0
    /\ state = CLEARED => clears = 1
    /\ AfterKeyboard =>
        /\ kbdCall.cleared <=>
              kbdCall.from = KEYBOARD /\ kbdCall.depth = 0 /\ state = CLEARED
        /\ kbdCall.from = CLEARED => clears = 1

\* C2 witness: a session has ended (CLEARED to INACTIVE) with its one clear
C2_Witness ==
    /\ AfterKeyboard
    /\ kbdCall.from = CLEARED /\ state = INACTIVE
    /\ clears = 1

\* C3: when the keyboard returns OK with an empty buffer, the call reports
\* exactly Backspace down then Backspace up, and no text.
C3_EmptyConfirm ==
    AfterKeyboard /\ kbdCall.modal /\ kbdCall.button = SWKBD_BUTTON_RIGHT
                  /\ LastBuffer[0] = 0
      => /\ kbdCall.from = INACTIVE
         /\ emitted = BackspaceTap
         /\ Places("Text") = {}

\* C3 witness: OK was pressed with nothing typed
C3_Witness ==
    /\ AfterKeyboard /\ kbdCall.modal /\ kbdCall.button = SWKBD_BUTTON_RIGHT
    /\ kbdCall.typed = << >>
    /\ Len(emitted) = 2

\* C4: when the keyboard returns Cancel, the call reports no event whatever
\* the buffer holds, and the machine is in KEYBOARD.
C4_Cancel ==
    AfterKeyboard /\ kbdCall.modal /\ kbdCall.button = SWKBD_BUTTON_LEFT
      => /\ emitted = << >>
         /\ state = KEYBOARD

\* C4 witness: Cancel was pressed with text in the buffer
C4_Witness ==
    /\ AfterKeyboard /\ kbdCall.modal /\ kbdCall.button = SWKBD_BUTTON_LEFT
    /\ LastBuffer[0] # 0
    /\ state = KEYBOARD

\* C5: when the keyboard returns OK with text, the call reports exactly one
\* text event; it carries the typed text cut to the 31 bytes the 32-byte
\* buffer has room for; no Backspace event is reported.
C5_ConfirmText ==
    AfterKeyboard /\ kbdCall.modal /\ kbdCall.button = SWKBD_BUTTON_RIGHT
                  /\ LastBuffer[0] # 0
      => /\ emitted = << AddInputCharactersUTF8(
                           SubSeq(kbdCall.typed, 1, Min(Len(kbdCall.typed), 31))) >>
         /\ Len(emitted[1].text) <= 31
         /\ Places("Key") = {}

\* C5 witness: OK was pressed on a text longer than the buffer has room for
C5_Witness ==
    /\ AfterKeyboard /\ kbdCall.modal /\ kbdCall.button = SWKBD_BUTTON_RIGHT
    /\ Len(kbdCall.typed) > 31
    /\ Len(emitted) = 1 /\ Len(emitted[1].text) = 31

\* C6: when the touch bit is set in the held or the just-pressed mask, also
\* when it is set in the just-released mask too, updateTouch reports one
\* pointer move and one pointer button event, the button event is button 0
\* down, and the move comes before it.
C6_TouchPriority ==
    AfterTouch /\ KEY_TOUCH \in (kHeld \cup kDown)
      => /\ Cardinality(Places("MousePos")) = 1
         /\ Cardinality(Places("MouseButton")) = 1
         /\ \A i \in Places("MouseButton") :
              /\ emitted[i] = AddMouseButtonEvent(0, TRUE)
              /\ \A j \in Places("MousePos") : j < i

\* C6 witness: the just-pressed and the just-released bit are set together
C6_Witness ==
    /\ AfterTouch
    /\ KEY_TOUCH \in kDown /\ KEY_TOUCH \in kUp /\ KEY_TOUCH \notin kHeld
    /\ Len(emitted) = 3

\* C7: when the touch bit is set in none of the three masks, updateTouch
\* reports one pointer move to (-10, -10) and nothing else.
C7_IdleSentinel ==
    AfterTouch /\ KEY_TOUCH \notin (kHeld \cup kDown \cup kUp)
      => emitted = << AddMousePosEvent(-10, -10) >>

\* C7 witness: no touch bit is set while another key is held and released
C7_Witness ==
    /\ AfterTouch
    /\ KEY_TOUCH \notin (kHeld \cup kDown \cup kUp)
    /\ "KEY_A" \in kHeld /\ "KEY_A" \in kUp
    /\ Len(emitted) = 1

\* C8: when the touch bit is set in the just-released mask alone, updateTouch
\* reports one event, button 0 up, and no pointer move.
C8_TouchRelease ==
    AfterTouch /\ KEY_TOUCH \in kUp /\ KEY_TOUCH \notin (kHeld \cup kDown)
      => /\ emitted = << AddMouseButtonEvent(0, FALSE) >>
         /\ Places("MousePos") = {}

\* C8 witness: the touch was released
C8_Witness ==
    /\ AfterTouch
    /\ KEY_TOUCH \in kUp /\ KEY_TOUCH \notin (kHeld \cup kDown)
    /\ Len(emitted) = 1 /\ emitted[1].ev = "MouseButton"

\* C9: while the touch is pressed, the pointer move reported for the raw
\* sample (px, py) is to (px + 40, py + 240).
C9_CoordinateOffset ==
    AfterTouch /\ KEY_TOUCH \in (kHeld \cup kDown)
      => OfKind(emitted, "MousePos") = << AddMousePosEvent(tPos[1] + 40, tPos[2] + 240) >>

\* C9 witness: the raw sample (0, 0) was reported as (40, 240)
C9_Witness ==
    /\ AfterTouch /\ KEY_TOUCH \in kHeld
    /\ tPos = <<0, 0>>
    /\ \E i \in 1..Len(emitted) : emitted[i] = AddMousePosEvent(40, 240)

\* C10: a just-pressed A makes updateGamepads report GamepadFaceDown down, and
\* if B has no edge in the poll, nothing for GamepadFaceRight; a just-pressed
\* B makes it report GamepadFaceRight down, and if A has no edge, nothing for
\* GamepadFaceDown.
C10_CrossMapping ==
    AfterGamepads =>
      /\ "KEY_A" \in kDown =>
           /\ \E i \in 1..Len(emitted) :
                emitted[i] = AddKeyEvent("ImGuiKey_GamepadFaceDown", TRUE)
           /\ "KEY_B" \notin (kDown \cup kUp) =>
                EventsFor("ImGuiKey_GamepadFaceRight") = << >>
      /\ "KEY_B" \in kDown =>
           /\ \E i \in 1..Len(emitted) :
                emitted[i] = AddKeyEvent("ImGuiKey_GamepadFaceRight", TRUE)
           /\ "KEY_A" \notin (kDown \cup kUp) =>
                EventsFor("ImGuiKey_GamepadFaceDown") = << >>

\* C10 witness: A alone was just pressed
C10_Witness ==
    /\ AfterGamepads
    /\ kDown = {"KEY_A"} /\ kUp = {}
    /\ EventsFor("ImGuiKey_GamepadFaceDown") # << >>

\* the analog events of the latest call, in the order reported
Analog == OfKind(emitted, "KeyAnalog")

\* the raw deflection of a sample in each direction: left, right, up, down
Deflection(pos) == << -pos[1], pos[1], pos[2], -pos[2] >>

\* C11: the intensity reported for each of the four directions is within
\* [0, 1]; it is 0 when the raw deflection in the direction is at most
\* 0.3 * 156 and 1 when it is at least 0.9 * 156; no larger deflection gets a
\* smaller intensity; and the sample (0, 0) gives 0 in all four directions.
C11_AnalogMonotone ==
    AfterGamepads =>
      /\ Len(Analog) = 4
      /\ \A i \in 1..4 :
           LET d == Deflection(cPos)[i]
               v == Analog[i].x
           IN  /\ 0 <= v /\ v <= AnalogDen
               /\ 10 * d <= 3 * 156 => v = 0
               /\ 10 * d >= 9 * 156 => v = AnalogDen
               /\ \A p \in FineSticks :
                    Deflection(p)[i] >= d =>
                      AnalogValue(p[analogMapping[i].in], analogMapping[i].min,
                                  analogMapping[i].max) >= v
      /\ cPos = <<0, 0>> => \A i \in 1..4 : Analog[i].x = 0

\* C11 witness: a deflection between the two thresholds got an intensity
\* strictly between 0 and 1
C11_Witness ==
    /\ AfterGamepads
    /\ cPos = <<100, 0>>
    /\ Analog[2].x > 0 /\ Analog[2].x < AnalogDen

\* C12: the first call of NewFrame writes a delta-time of 0; every later call
\* writes the ticks between its clock sample and the sample of the call before.
C12_FirstDeltaZero ==
    [][ pc = "NewFrame" /\ pc' = "updateTouch" =>
          IF ~started THEN DeltaTime' = 0
                      ELSE DeltaTime' = prev' - prev ]_vars

----------------------------------------------------------------------------
\* what the time step and the touch and gamepad translators report in a frame
FrameInputs ==
    << DeltaTimeWritten >> \o TouchEvents(kHeld, kDown, kUp, tPos)
                           \o GamepadEvents(kUp, kDown, cPos)

IsPrefix(s, t) == Len(s) <= Len(t) /\ SubSeq(t, 1, Len(s)) = s

IsKeyboardEntry(e) ==
    e.ev \in {"swkbdInputText", "Text"} \/ e.key = "ImGuiKey_Backspace"

\* C13: in every frame the delta-time is written first, then the touch
\* translator's events are reported, then the gamepad translator's, and only
\* then the keyboard state machine runs: when the modal keyboard is shown, or a
\* text or Backspace event is reported, every pointer and gamepad event of the
\* frame has been reported before it.
C13_FrameOrder ==
    /\ IsPrefix(frame, FrameInputs) \/ IsPrefix(FrameInputs, frame)
    /\ \A i \in 1..Len(frame) :
         IsKeyboardEntry(frame[i]) =>
           /\ i > Len(FrameInputs)
           /\ SubSeq(frame, 1, Len(FrameInputs)) = FrameInputs
    /\ pc = "ImGuiNewFrame" =>
         frame = FrameInputs
                   \o (IF kbdCall.modal THEN << KeyboardShown >> ELSE << >>)
                   \o emitted
    /\ pc = "updateKeyboard" => frame = FrameInputs

C13_Witness ==
    /\ pc = "ImGuiNewFrame"
    /\ KEY_TOUCH \in kHeld /\ "KEY_L" \in kUp
    /\ kbdCall.modal
    /\ \E i \in 1..Len(frame) : frame[i].ev = "Text"
    /\ Len(frame) = Len(FrameInputs) + 2

----------------------------------------------------------------------------
\* C14: getClipboardText returns exactly the text of the most recent
\* setClipboardText (nothing of an earlier text is kept), the empty string
\* before any set, and it leaves the stored text as it was.
C14_ClipboardLastWrite ==
    /\ clipCall.fn = "getClipboardText" =>
         /\ CStr(clipCall.ret) = (IF clipCall.sets = 0 THEN << >>
                                  ELSE CStr(clipCall.text_))
         /\ s_clipboard = clipCall.old
    /\ clipCall.fn = "setClipboardText" => s_clipboard = CStr(clipCall.text_)
    /\ clipCall.sets = 0 => s_clipboard = << >>

C14_Witness ==
    /\ clipCall.fn = "getClipboardText"
    /\ clipCall.sets >= 2
    /\ Len(clipCall.earlier) > Len(CStr(clipCall.text_))
    /\ Len(CStr(clipCall.ret)) = 1

----------------------------------------------------------------------------
\* C15: under the frame driver, with the GUI handling its queue once per
\* frame, a keyboard session that waits for completion (KEYBOARD) eventually
\* sees an empty queue, passes CLEARED and is INACTIVE again.
C15_SessionCompletes == (state = KEYBOARD) ~> (state = INACTIVE)

----------------------------------------------------------------------------
\* the key events of the latest call, in the order reported
KeyEvts == OfKind(emitted, "Key")

\* the edges of a poll: table entry and direction (TRUE: just pressed)
Edges ==
    { e \in (1..Len(buttonMapping)) \X BOOLEAN :
        buttonMapping[e[1]][1] \in (IF e[2] THEN kDown ELSE kUp) }

\* the edges that come before an edge: those of earlier entries, and the
\* released edge of its own entry
EdgesBefore(e) ==
    { f \in Edges : f[1] < e[1] \/ (f[1] = e[1] /\ ~f[2] /\ e[2]) }

\* C16: updateGamepads reports one key event per edge bit of each of the 12
\* table entries and no other key event: key up for a just-released bit, key
\* down for a just-pressed bit, in table order, the key up of an entry before
\* its key down; with no edge bit of a mapped button it reports no key event.
C16_ButtonEdges ==
    AfterGamepads =>
      /\ Len(buttonMapping) = 12
      /\ Len(KeyEvts) = Cardinality(Edges)
      /\ \A e \in Edges :
           KeyEvts[Cardinality(EdgesBefore(e)) + 1]
             = AddKeyEvent(buttonMapping[e[1]][2], e[2])
      /\ (\A i \in 1..Len(buttonMapping) :
            buttonMapping[i][1] \notin (kUp \cup kDown)) => KeyEvts = << >>

\* C16 witness: one entry has both edge bits set in a poll
C16_Witness ==
    /\ AfterGamepads
    /\ kUp = {"KEY_X"} /\ kDown = {"KEY_X"}
    /\ KeyEvts = << AddKeyEvent("ImGuiKey_GamepadFaceUp", FALSE),
                    AddKeyEvent("ImGuiKey_GamepadFaceUp", TRUE) >>

\* C17: every call of updateGamepads reports exactly four analog events, for
\* left, right, up, down in this order, each down exactly when the intensity
\* it carries is above 0.1; left and right are never both down, nor up and down.
C17_AnalogEveryFrame ==
    AfterGamepads =>
      /\ Len(Analog) = 4
      /\ << Analog[1].key, Analog[2].key, Analog[3].key, Analog[4].key >>
           = << "ImGuiKey_GamepadLStickLeft", "ImGuiKey_GamepadLStickRight",
                "ImGuiKey_GamepadLStickUp", "ImGuiKey_GamepadLStickDown" >>
      /\ \A i \in 1..4 : Analog[i].down <=> (10 * Analog[i].x > AnalogDen)
      /\ ~(Analog[1].down /\ Analog[2].down)
      /\ ~(Analog[3].down /\ Analog[4].down)
      /\ SubSeq(emitted, Len(emitted) - 3, Len(emitted)) = Analog

\* C17 witness: a diagonal sample puts right and down down, left and up not
C17_Witness ==
    /\ AfterGamepads
    /\ cPos = <<100, -100>>
    /\ ~Analog[1].down /\ Analog[2].down /\ ~Analog[3].down /\ Analog[4].down

----------------------------------------------------------------------------
\* the latest event of a call for a logical key is a key down
LastIsDown(key) == EventsFor(key)[Len(EventsFor(key))].down

\* C18: whenever a poll reports events for GamepadL1, the last of them is a
\* key down if L or ZL is held and a key up if neither is, so that releasing
\* one of the two while the other stays held does not leave the key up; and
\* likewise for GamepadR1 with R and ZR.
C18_ShoulderConsistent ==
    AfterGamepads =>
      /\ EventsFor("ImGuiKey_GamepadL1") # << >> =>
           (LastIsDown("ImGuiKey_GamepadL1") <=> ({"KEY_L", "KEY_ZL"} \cap kHeld # {}))
      /\ EventsFor("ImGuiKey_GamepadR1") # << >> =>
           (LastIsDown("ImGuiKey_GamepadR1") <=> ({"KEY_R", "KEY_ZR"} \cap kHeld # {}))

----------------------------------------------------------------------------
\* C19: the software keyboard is shown only by a call of updateKeyboard made
\* in INACTIVE that sees WantTextInput, once in that call, never by a call in
\* KEYBOARD or CLEARED; two calls that show it are at least three calls
\* apart; and a call that reads WantTextInput is at least the second call
\* after the one that cleared the focus, the call in CLEARED lying between.
C19_KeyboardGating ==
    /\ Cardinality({ i \in 1..Len(frame) : frame[i] = KeyboardShown }) <= 1
    /\ AfterKeyboard =>
         /\ kbdCall.modal => kbdCall.from = INACTIVE /\ kbdCall.want
         /\ kbdCall.modal => kbdCall.afterModal >= 3
         /\ kbdCall.from = INACTIVE => kbdCall.afterClear >= 2
         /\ kbdCall.from = CLEARED => kbdCall.afterClear = 1
         /\ kbdCall.modal <=> \E i \in 1..Len(frame) : frame[i] = KeyboardShown
         /\ kbdCall.modal <=> since.modal = 0
         /\ kbdCall.from \in {KEYBOARD, CLEARED} => ~kbdCall.modal
         /\ kbdCall.cleared <=> since.clear = 0

\* C19 witness: the keyboard is shown again three calls after it was shown,
\* by the second call after the focus was cleared
C19_Witness ==
    /\ AfterKeyboard /\ kbdCall.modal
    /\ kbdCall.afterModal = 3 /\ kbdCall.afterClear = 2

\* C20: a call of updateKeyboard in INACTIVE that sees WantTextInput false
\* leaves the machine in INACTIVE, reports no event, shows no keyboard and
\* does not clear the focus; a call in KEYBOARD that sees events pending
\* leaves it in KEYBOARD and does none of these either.
C20_IdleNoOp ==
    AfterKeyboard =>
      /\ kbdCall.from = INACTIVE /\ ~kbdCall.want =>
           /\ state = INACTIVE
           /\ emitted = << >>
           /\ ~kbdCall.modal /\ ~kbdCall.cleared
           /\ since.modal > 0 /\ since.clear > 0
           /\ frame = FrameInputs
      /\ kbdCall.from = KEYBOARD /\ kbdCall.depth > 0 =>
           /\ state = KEYBOARD
           /\ emitted = << >>
           /\ ~kbdCall.modal /\ ~kbdCall.cleared
           /\ since.modal > 0 /\ since.clear > 0
           /\ clears = 0
           /\ frame = FrameInputs

\* C20 witness: a session waited in KEYBOARD for a second call with events pending
C20_Witness ==
    /\ AfterKeyboard
    /\ kbdCall.from = KEYBOARD /\ kbdCall.depth > 0
    /\ since.modal = 2
    /\ state = KEYBOARD

====
